---- MODULE Spec2Model ----
(***************************************************************************)
(* Form builder: the Form Editor (FormBuilder), one QuestionBuilder and    *)
(* one auto-save reconciler (useAutoSave) per question, and the            *)
(* persistence gateway (formService) over localStorage.                    *)
(*                                                                         *)
(* One JavaScript thread: every handler, timer callback and promise        *)
(* continuation runs to completion, followed by React's re-render, so each *)
(* of them is one atomic action here.  Timers and gateway responses may    *)
(* fire in any order.                                                      *)
(***************************************************************************)
EXTENDS Integers, Sequences, FiniteSets, Bags, TLC

\* ---------------------------------------------------------------- bounds
MaxActions == 3      \* user actions (change events, add and delete clicks) in one run
MaxValueLen == 2     \* characters typed into one field of the entry renderer
MaxSubmissions == 1  \* accepted submissions of the entry renderer in one run
MaxClock == 2        \* ticks of the clock in one run of ClockSpec
MaxClockActions == 2 \* user actions in one run of ClockSpec

\* ---------------------------------------------------------------- values
FormId == 1
PlaceholderId == 0   \* stands for the client-side uuidv4() of handleAddQuestion
\* nanoid() is called at most once per user action, after the initial question
Ids == 1..(MaxActions + 1)

LabelInputs == {<<>>, <<" ">>, <<"a">>}    \* titles the user types
LabelValues == LabelInputs \cup {<<" ", " ">>, <<" ", "a">>, <<"a", " ">>}
TypeInputs == {"text", "number"}          \* the <Select> offers these two
TypeValues == TypeInputs \cup {"null"}
NumValues == {<<>>, <<1>>, <<2>>}         \* <<>> is undefined

ErrTitle == "Question title is required"
ErrMinMax == "Minimum value cannot be greater than maximum value"
ErrSaveQuestion == "Failed to save question"
NoError == "null"

Questions ==
  [id : Ids \cup {PlaceholderId}, type : TypeValues, label : LabelValues,
   required : BOOLEAN, min : NumValues, max : NumValues]

\* ---------------------------------------------------------------- pure helpers
RECURSIVE TrimStart(_)
TrimStart(s) ==
  IF s # <<>> /\ Head(s) = " " THEN TrimStart(Tail(s)) ELSE s

RECURSIVE TrimEnd(_)
TrimEnd(s) ==
  IF s # <<>> /\ s[Len(s)] = " " THEN TrimEnd(SubSeq(s, 1, Len(s) - 1)) ELSE s

\* String.prototype.trim
Trim(s) == TrimEnd(TrimStart(s))

\* validateQuestion without its title check
validateQuestionNoTitle(question) ==
  IF /\ question.type = "number"
     /\ question.min # <<>>
     /\ question.max # <<>>
     /\ question.min[1] > question.max[1]
    THEN [isValid |-> FALSE, error |-> ErrMinMax]
    ELSE [isValid |-> TRUE, error |-> NoError]

\* validateQuestion of the hook: title, then the number rule; the type is
\* not looked at except to select the number rule.
validateQuestion(question) ==
  IF Trim(question.label) = <<>>
    THEN [isValid |-> FALSE, error |-> ErrTitle]
    ELSE IF /\ question.type = "number"
            /\ question.min # <<>>
            /\ question.max # <<>>
            /\ question.min[1] > question.max[1]
      THEN [isValid |-> FALSE, error |-> ErrMinMax]
      ELSE [isValid |-> TRUE, error |-> NoError]

\* isQuestionValid of FormBuilder: title, type, and the number rule
isQuestionValid(question) ==
  /\ Trim(question.label) # <<>>
  /\ question.type # "null"
  /\ ~(/\ question.type = "number"
       /\ question.min # <<>>
       /\ question.max # <<>>
       /\ question.min[1] > question.max[1])

\* validateTitle and validateQuestionType of QuestionBuilder
validateTitle(title) == Trim(title) # <<>>
validateQuestionType(type) == type # "null"

\* JSON.stringify of a question: the key/value pairs, undefined ones left out
JSONStringify(q) ==
  <<<<"id", q.id>>, <<"type", q.type>>, <<"label", q.label>>,
    <<"required", q.required>>>>
  \o (IF q.min = <<>> THEN <<>> ELSE <<<<"min", q.min[1]>>>>)
  \o (IF q.max = <<>> THEN <<>> ELSE <<<<"max", q.max[1]>>>>)

Range(s) == {s[i] : i \in DOMAIN s}
QIds(qs) == {qs[i].id : i \in DOMAIN qs}
QOf(qs, id) == qs[CHOOSE i \in DOMAIN qs : qs[i].id = id]

\* ---------------------------------------------------------------- state
VARIABLES
  form,        \* FormBuilder's `form` state: [id, title, questions, updatedAt]
  fbSaving,    \* FormBuilder's isSaving
  store,       \* localStorage[STORAGE_KEY]: sequence of forms
  nextId,      \* next id nanoid() returns
  local,       \* per question id: QuestionBuilder's localQuestion, <<>> if unmounted
  updTimer,    \* per question id: QuestionBuilder's updateTimeoutRef (500 ms)
  rec,         \* per question id: the reconciler (useAutoSave) state
  inflight,    \* gateway calls issued and not yet settled: a bag of calls
  submits,     \* history: the debouncedSave calls, in order
  updates,     \* history: the onUpdate calls made by debouncedSave, in order
  sent,        \* history: the saveQuestion calls reconcilers made: [seq, q]
  superseded,  \* history: submissions whose timer a later debouncedSave cleared
  tornDown,    \* history: submissions whose timer was pending when torn down
  nActions,    \* history: user actions handled so far
  rejected,    \* history: some gateway call was rejected
  deleted,     \* history: the question ids handleQuestionDelete was called with
  appForm,     \* App's `form` state: the form last handed to onSave
  \* the FormBuilder with a title input (the copy that follows App in App.tsx)
  vForm,       \* its `form` state
  vSaving,     \* its isSaving
  vStore,      \* localStorage[STORAGE_KEY] under it: sequence of forms
  vTimer,      \* its pending debounce timer: <<>> or <<[form, tag]>>
  vCalls,      \* formService.saveForm calls issued and not yet settled
  \* the entry renderer (FormRenderer)
  entryForm,   \* <<>> while the preview tab is closed, else <<its form prop>>
  values,      \* react-hook-form field values, by question id
  errors,      \* formState.errors, by question id
  submissions, \* history: the onSubmit calls, in order
  now          \* the clock: what Date.now() returns

formBuilderVars == <<form, fbSaving, store, nextId, local, updTimer, rec,
                     inflight, submits, updates, sent, superseded, tornDown,
                     nActions, rejected, deleted>>
editorVars == <<formBuilderVars, appForm>>
variantVars == <<vForm, vSaving, vStore, vTimer, vCalls>>
entryVars == <<entryForm, values, errors, submissions>>
others == <<variantVars, entryVars, now>>

vars == <<editorVars, variantVars, entryVars, now>>

hist == <<submits, updates, sent, superseded, tornDown, nActions, rejected>>

\* A reconciler: `timers` are the save timers it scheduled that have neither
\* fired nor been cleared, each named by its handle; `ref` is
\* saveTimeoutRef.current (0: undefined); `lastSaved` is lastSavedValueRef.
NoHandle == 0

FreshRec ==
  [timers |-> {}, ref |-> NoHandle, lastSaved |-> <<>>, isSaving |-> FALSE,
   error |-> NoError]

\* ---------------------------------------------------------------- React
\* A component is mounted for exactly the question ids of `form` (key =
\* question.id).  After a handler has run, React renders: components whose
\* key left the list are unmounted (their cleanup effects run), new keys are
\* mounted fresh, and a QuestionBuilder whose `question` prop changed copies
\* it into localQuestion.

\* an unmount that leaves the pending timer scheduled
CleanupReconcilerNot(r) == r

\* cleanup effect of useAutoSave: clearTimeout(saveTimeoutRef.current)
CleanupReconciler(r) ==
  [FreshRec EXCEPT !.timers = {t \in r.timers : t.handle # r.ref}]

RenderRec(oldqs, newqs, r) ==
  [id \in Ids |->
     IF id \in QIds(newqs)
       THEN IF id \in QIds(oldqs) THEN r[id] ELSE FreshRec
       ELSE IF id \in QIds(oldqs) THEN CleanupReconciler(r[id]) ELSE r[id]]

RenderLocal(oldqs, newqs, loc) ==
  [id \in Ids |->
     IF id \notin QIds(newqs) THEN <<>>
     ELSE IF id \notin QIds(oldqs) THEN <<QOf(newqs, id)>>
     ELSE IF QOf(newqs, id) # QOf(oldqs, id) THEN <<QOf(newqs, id)>>
     ELSE loc[id]]

\* cleanup effect of QuestionBuilder: clearTimeout(updateTimeoutRef.current)
RenderUpdTimer(oldqs, newqs, t) ==
  [id \in Ids |-> IF id \in QIds(newqs) /\ id \in QIds(oldqs) THEN t[id] ELSE <<>>]

\* A response that lands after its reconciler was unmounted changes no
\* component state: the call no longer has an owner.
DisownCall(c, oldqs, newqs) ==
  IF c.by \in QIds(oldqs) \ QIds(newqs) THEN [c EXCEPT !.by = NoHandle] ELSE c

RECURSIVE DisownAll(_, _, _, _)
DisownAll(pending, calls, oldqs, newqs) ==
  IF pending = {} THEN EmptyBag
  ELSE LET c == CHOOSE x \in pending : TRUE IN
         DisownAll(pending \ {c}, calls, oldqs, newqs)
         (+) [x \in {DisownCall(c, oldqs, newqs)} |-> calls[c]]

Disown(calls, oldqs, newqs) ==
  DisownAll(BagToSet(calls), calls, oldqs, newqs)

Issue(calls, c) == calls (+) SetToBag({c})
Settle(calls, c) == calls (-) SetToBag({c})
InFlight == BagToSet(inflight)

\* ---------------------------------------------------------------- gateway calls
UpdateFormCall(f) ==
  [kind |-> "updateForm", form |-> <<f>>, q |-> <<>>, by |-> NoHandle, seq |-> 0]

SaveQuestionCall(id, q, n) ==
  [kind |-> "saveQuestion", form |-> <<>>, q |-> <<q>>, by |-> id, seq |-> n]

AddQuestionCall(f, q) ==
  [kind |-> "addQuestion", form |-> <<f>>, q |-> <<q>>, by |-> NoHandle, seq |-> 0]


FormIndex(forms, id) ==
  IF \E i \in DOMAIN forms : forms[i].id = id
    THEN CHOOSE i \in DOMAIN forms :
           forms[i].id = id /\ \A j \in 1..(i - 1) : forms[j].id # id
    ELSE 0

\* ---------------------------------------------------------------- FormBuilder
\* Date.now()
DateNow == now

\* handleQuestionUpdate: the form with the question of that id replaced
handleQuestionUpdate(f, updatedQuestion) ==
  [f EXCEPT !.questions =
              [i \in DOMAIN f.questions |->
                 IF f.questions[i].id = updatedQuestion.id
                   THEN updatedQuestion ELSE f.questions[i]],
            !.updatedAt = DateNow]

\* handleQuestionDelete: the form without the question of that id
handleQuestionDelete(f, questionId) ==
  [f EXCEPT !.questions = SelectSeq(f.questions, LAMBDA q : q.id # questionId),
            !.updatedAt = DateNow]

\* the default question of handleAddQuestion
NewQuestion ==
  [id |-> PlaceholderId, type |-> "text", label |-> <<>>, required |-> FALSE,
   min |-> <<>>, max |-> <<>>]

\* ---------------------------------------------------------------- useAutoSave
\* debouncedSave without its clearTimeout
ClearPendingNot(r) == r

\* lines 58-60: clearTimeout(saveTimeoutRef.current)
ClearPending(r) ==
  [r EXCEPT !.timers = {t \in r.timers : t.handle # r.ref}]

\* lines 63-64: the no-op test against lastSavedValueRef
IsLastSaved(r, updatedQuestion) ==
  /\ r.lastSaved # <<>>
  /\ JSONStringify(r.lastSaved[1]) = JSONStringify(updatedQuestion)

\* setTimeout whose handle is not kept in saveTimeoutRef
ScheduleNoRef(r, updatedQuestion, handle) ==
  [r EXCEPT !.timers = @ \cup {[handle |-> handle, q |-> updatedQuestion]}]

\* line 69: setTimeout, the handle kept in saveTimeoutRef
Schedule(r, updatedQuestion, handle) ==
  [r EXCEPT !.timers = @ \cup {[handle |-> handle, q |-> updatedQuestion]},
            !.ref = handle]

\* onUpdate called for valid questions only
OnUpdateCallsIfValid(updatedQuestion) ==
  IF validateQuestion(updatedQuestion).isValid THEN <<updatedQuestion>> ELSE <<>>

\* line 55: the onUpdate calls debouncedSave makes for a question
OnUpdateCalls(updatedQuestion) == <<updatedQuestion>>

\* the reconciler after debouncedSave(updatedQuestion), lines 57-69
AfterDebouncedSave(r, updatedQuestion, handle) ==
  IF IsLastSaved(ClearPending(r), updatedQuestion)
    THEN ClearPending(r)
    ELSE Schedule(ClearPending(r), updatedQuestion, handle)

\* lines 79-84: the save resolved
OnSaveResolved(r, updatedQuestion) ==
  [r EXCEPT !.lastSaved = <<updatedQuestion>>, !.isSaving = FALSE,
            !.error = NoError]

\* a catch block that forgets to reset isSaving
OnSaveRejectedStillSaving(r, message) ==
  [r EXCEPT !.error = message]

\* lines 85-91: the save rejected
OnSaveRejected(r, message) ==
  [r EXCEPT !.isSaving = FALSE, !.error = message]

\* The form the editor starts from: stored earlier and loaded as initialForm,
\* with one number question whose maximum is set.
InitQuestion ==
  [id |-> 1, type |-> "number", label |-> <<"a">>, required |-> FALSE,
   min |-> <<>>, max |-> <<1>>]

InitEditor ==
  /\ form = [id |-> FormId, title |-> <<>>, questions |-> <<InitQuestion>>,
          updatedAt |-> 0]
  /\ fbSaving = FALSE
  /\ store = <<[id |-> FormId, title |-> <<>>, questions |-> <<InitQuestion>>,
          updatedAt |-> 0]>>
  /\ nextId = 2
  /\ local = [id \in Ids |-> IF id = 1 THEN <<InitQuestion>> ELSE <<>>]
  /\ updTimer = [id \in Ids |-> <<>>]
  /\ rec = [id \in Ids |-> FreshRec]
  /\ inflight = EmptyBag
  /\ submits = <<>>
  /\ updates = <<>>
  /\ sent = <<>>
  /\ superseded = {}
  /\ tornDown = {}
  /\ nActions = 0
  /\ rejected = FALSE
  /\ deleted = {}

\* App loaded the stored form
InitApp == appForm = [id |-> FormId, title |-> <<>>, questions |-> <<InitQuestion>>,
          updatedAt |-> 0]

\* the title FormBuilder not in use
VariantIdle ==
  /\ vForm = [id |-> FormId, title |-> <<>>, questions |-> <<>>, updatedAt |-> 0]
  /\ vSaving = FALSE
  /\ vStore = <<>>
  /\ vTimer = <<>>
  /\ vCalls = {}

\* the preview tab closed
EntryIdle ==
  /\ entryForm = <<>>
  /\ values = <<>>
  /\ errors = <<>>
  /\ submissions = <<>>

\* the clock at the moment the editor is opened
InitClock == now = 0

Init == InitApp /\ InitEditor /\ VariantIdle /\ EntryIdle /\ InitClock

\* ---------------------------------------------------------------- actions
\* history: the handles of the save timers pending in reconcilers that the
\* render from oldqs to newqs unmounts
TornBy(oldqs, newqs, r) ==
  UNION {{t.handle : t \in r[id].timers} : id \in QIds(oldqs) \ QIds(newqs)}

\* FormBuilder calls setForm(f) and React renders
SetForm(f, recNow, localNow, updNow, callsNow) ==
  /\ form' = f
  /\ rec' = RenderRec(form.questions, f.questions, recNow)
  /\ local' = RenderLocal(form.questions, f.questions, localNow)
  /\ updTimer' = RenderUpdTimer(form.questions, f.questions, updNow)
  /\ inflight' = Disown(callsNow, form.questions, f.questions)
  /\ tornDown' = tornDown \cup TornBy(form.questions, f.questions, recNow)

\* QuestionBuilder.handleChange(field, value): the title or the type edited
HandleChange(id, field, value) ==
  /\ local[id] # <<>>
  /\ nActions < MaxActions
  /\ local[id][1][field] # value      \* onChange reports changes only
  /\ LET updatedQuestion == [local[id][1] EXCEPT ![field] = value] IN
       /\ local' = [local EXCEPT ![id] = <<updatedQuestion>>]
       /\ updTimer' = [updTimer EXCEPT ![id] =
            <<[q |-> updatedQuestion, guarded |-> TRUE, form |-> form]>>]
  /\ nActions' = nActions + 1
  /\ UNCHANGED <<others, deleted, appForm, form, fbSaving, store, nextId, rec, inflight, submits,
                 updates, sent, superseded, tornDown, rejected>>

\* QuestionBuilder.handleValidationChange(field, value); the min and max
\* inputs are rendered for number questions only
HandleValidationChange(id, field, value) ==
  /\ local[id] # <<>>
  /\ nActions < MaxActions
  /\ local[id][1][field] # value      \* onChange reports changes only
  /\ field \in {"min", "max"} => local[id][1].type = "number"
  /\ LET updatedQuestion == [local[id][1] EXCEPT ![field] = value] IN
       /\ local' = [local EXCEPT ![id] = <<updatedQuestion>>]
       /\ updTimer' = [updTimer EXCEPT ![id] =
            <<[q |-> updatedQuestion, guarded |-> FALSE, form |-> form]>>]
  /\ nActions' = nActions + 1
  /\ UNCHANGED <<others, deleted, appForm, form, fbSaving, store, nextId, rec, inflight, submits,
                 updates, sent, superseded, tornDown, rejected>>

\* debouncedSave(updatedQuestion) of the reconciler of question id, called
\* with the onUpdate of the render the caller closed over, whose `form` is f:
\* onUpdate = handleQuestionUpdate sets the form and starts saveForm, then
\* the reconciler clears and schedules its timer.
DebouncedSave(id, updatedQuestion, f) ==
  LET updatedForm == handleQuestionUpdate(f, updatedQuestion)
      handle == Len(submits) + 1
      calls == OnUpdateCalls(updatedQuestion)
  IN
  /\ submits' = Append(submits, [id |-> id, q |-> updatedQuestion])
  /\ updates' = updates \o calls
  /\ superseded' = superseded \cup {t.handle : t \in rec[id].timers}
  /\ IF calls # <<>>
       THEN /\ SetForm(updatedForm,
                       [rec EXCEPT ![id] =
                          AfterDebouncedSave(@, updatedQuestion, handle)],
                       local, [updTimer EXCEPT ![id] = <<>>],
                       Issue(inflight, UpdateFormCall(updatedForm)))
            /\ fbSaving' = TRUE
       ELSE /\ rec' = [rec EXCEPT ![id] =
                         AfterDebouncedSave(@, updatedQuestion, handle)]
            /\ updTimer' = [updTimer EXCEPT ![id] = <<>>]
            /\ UNCHANGED <<others, deleted, appForm, form, fbSaving, local, inflight, tornDown>>
  /\ UNCHANGED <<others, deleted, appForm, store, nextId, sent, nActions, rejected>>

\* the 500 ms timer of QuestionBuilder fires
UpdateTimerFire(id) ==
  /\ updTimer[id] # <<>>
  /\ LET t == updTimer[id][1] IN
       IF t.guarded /\ ~(validateTitle(t.q.label) /\ validateQuestionType(t.q.type))
         THEN /\ updTimer' = [updTimer EXCEPT ![id] = <<>>]
              /\ UNCHANGED <<others, deleted, appForm, form, fbSaving, store, nextId, local, rec,
                             inflight, hist>>
         ELSE DebouncedSave(id, t.q, t.form)

\* the debounce timer of a reconciler fires (lines 69-79, up to the await)
SaveTimerFire(id) ==
  \E t \in rec[id].timers :
    LET v == validateQuestion(t.q)
        r == [rec[id] EXCEPT !.timers = @ \ {t}]
    IN
    IF ~v.isValid
      THEN /\ rec' = [rec EXCEPT ![id] = [r EXCEPT !.error = v.error]]
           /\ UNCHANGED <<others, deleted, appForm, form, fbSaving, store, nextId, local, updTimer,
                          inflight, hist>>
      ELSE /\ rec' = [rec EXCEPT ![id] =
                        [r EXCEPT !.isSaving = TRUE, !.error = NoError]]
           /\ inflight' = Issue(inflight, SaveQuestionCall(id, t.q, t.handle))
           /\ sent' = Append(sent, [seq |-> t.handle, q |-> t.q])
           /\ UNCHANGED <<others, deleted, appForm, form, fbSaving, store, nextId, local, updTimer,
                          submits, updates, superseded, tornDown, nActions, rejected>>

\* FormBuilder.handleQuestionDelete(id)
HandleQuestionDelete(id) ==
  /\ id \in QIds(form.questions)
  /\ nActions < MaxActions
  /\ LET updatedForm == handleQuestionDelete(form, id) IN
       SetForm(updatedForm, rec, local, updTimer,
               Issue(inflight, UpdateFormCall(updatedForm)))
  /\ fbSaving' = TRUE
  /\ nActions' = nActions + 1
  /\ deleted' = deleted \cup {id}
  /\ UNCHANGED <<others, appForm, store, nextId, submits, updates, sent,
                 superseded, rejected>>

\* FormBuilder.handleAddQuestion, up to the await
HandleAddQuestion ==
  /\ nActions < MaxActions
  /\ inflight' = Issue(inflight, AddQuestionCall(form, NewQuestion))
  /\ nActions' = nActions + 1
  /\ UNCHANGED <<others, deleted, appForm, form, fbSaving, store, nextId, local, updTimer, rec, submits,
                 updates, sent, superseded, tornDown, rejected>>

\* an updateForm that stores the form with the updatedAt it came with
updateFormAsSent(f) == f

\* formService.updateForm, lines 48-51: the form it stores and returns
updateForm(f) == [f EXCEPT !.updatedAt = DateNow]

\* formService.updateForm resolves, and saveForm continues after its await
UpdateFormResolve(c) ==
  /\ c \in InFlight
  /\ c.kind = "updateForm"
  /\ LET savedForm == updateForm(c.form[1])
         index == FormIndex(store, savedForm.id)
     IN
     /\ index # 0
     /\ store' = [store EXCEPT ![index] = savedForm]
     /\ SetForm(savedForm, rec, local, updTimer, Settle(inflight, c))
     /\ appForm' = savedForm               \* onSave(savedForm)
  /\ fbSaving' = FALSE
  /\ UNCHANGED <<others, deleted, nextId, submits, updates, sent, superseded,
                 nActions, rejected>>

\* formService.updateForm rejects (shouldFail, or the form is not stored)
UpdateFormReject(c) ==
  /\ c \in InFlight
  /\ c.kind = "updateForm"
  /\ inflight' = Settle(inflight, c)
  /\ fbSaving' = FALSE
  /\ rejected' = TRUE
  /\ UNCHANGED <<others, deleted, appForm, form, store, nextId, local, updTimer, rec, submits, updates,
                 sent, superseded, tornDown, nActions>>

\* the forms of the store after saveQuestion pushed newQuestion
PushQuestion(forms, index, newQuestion) ==
  [forms EXCEPT ![index].questions = Append(@, newQuestion),
                ![index].updatedAt = DateNow]

\* formService.saveQuestion resolves for a reconciler's call
SaveQuestionResolve(c) ==
  /\ c \in InFlight
  /\ c.kind = "saveQuestion"
  /\ LET index == FormIndex(store, FormId)
     IN
     /\ index # 0
     /\ store' = PushQuestion(store, index, [c.q[1] EXCEPT !.id = nextId])
     /\ rec' = IF c.by = NoHandle THEN rec
               ELSE [rec EXCEPT ![c.by] = OnSaveResolved(@, c.q[1])]
  /\ nextId' = nextId + 1
  /\ inflight' = Settle(inflight, c)
  /\ UNCHANGED <<others, deleted, appForm, form, fbSaving, local, updTimer, hist>>

\* formService.saveQuestion rejects for a reconciler's call
SaveQuestionReject(c) ==
  /\ c \in InFlight
  /\ c.kind = "saveQuestion"
  /\ rec' = IF c.by = NoHandle THEN rec
            ELSE [rec EXCEPT ![c.by] = OnSaveRejected(@, ErrSaveQuestion)]
  /\ inflight' = Settle(inflight, c)
  /\ rejected' = TRUE
  /\ UNCHANGED <<others, deleted, appForm, form, fbSaving, store, nextId, local, updTimer, submits,
                 updates, sent, superseded, tornDown, nActions>>

\* formService.saveQuestion resolves for handleAddQuestion, which continues
\* with the `form` it closed over when the button was clicked
AddQuestionResolve(c) ==
  /\ c \in InFlight
  /\ c.kind = "addQuestion"
  /\ LET index == FormIndex(store, c.form[1].id)
         savedQuestion == [c.q[1] EXCEPT !.id = nextId]
         updatedForm == [c.form[1] EXCEPT !.questions = Append(@, savedQuestion),
                                          !.updatedAt = DateNow]
     IN
     /\ index # 0
     /\ store' = PushQuestion(store, index, savedQuestion)
     /\ SetForm(updatedForm, rec, local, updTimer, Settle(inflight, c))
  /\ nextId' = nextId + 1
  /\ appForm' = [c.form[1] EXCEPT         \* onSave(updatedForm)
                   !.questions = Append(@, [c.q[1] EXCEPT !.id = nextId]),
                   !.updatedAt = DateNow]
  /\ UNCHANGED <<others, deleted, fbSaving, submits, updates, sent, superseded,
                 nActions, rejected>>

\* formService.saveQuestion rejects for handleAddQuestion
AddQuestionReject(c) ==
  /\ c \in InFlight
  /\ c.kind = "addQuestion"
  /\ inflight' = Settle(inflight, c)
  /\ rejected' = TRUE
  /\ UNCHANGED <<others, deleted, appForm, form, fbSaving, store, nextId, local, updTimer, rec, submits,
                 updates, sent, superseded, tornDown, nActions>>

Next ==
  \/ \E id \in Ids, value \in LabelInputs : HandleChange(id, "label", value)
  \/ \E id \in Ids, value \in TypeInputs : HandleChange(id, "type", value)
  \/ \E id \in Ids, value \in BOOLEAN : HandleValidationChange(id, "required", value)
  \/ \E id \in Ids, value \in NumValues : HandleValidationChange(id, "min", value)
  \/ \E id \in Ids : UpdateTimerFire(id)
  \/ \E id \in Ids : SaveTimerFire(id)
  \/ \E id \in Ids : HandleQuestionDelete(id)
  \/ HandleAddQuestion
  \/ \E c \in InFlight : UpdateFormResolve(c)
  \/ \E c \in InFlight : UpdateFormReject(c)
  \/ \E c \in InFlight : SaveQuestionResolve(c)
  \/ \E c \in InFlight : SaveQuestionReject(c)
  \/ \E c \in InFlight : AddQuestionResolve(c)
  \/ \E c \in InFlight : AddQuestionReject(c)

Spec == Init /\ [][Next]_vars

\* ---------------------------------------------------------------- the clock
\* Spec leaves the clock alone: every Date.now() of a session reads the same
\* value.  ClockSpec lets it advance between any two steps of the editor
\* (it never goes back), for sessions of up to MaxClockActions user actions.
Tick ==
  /\ now < MaxClock
  /\ now' = now + 1
  /\ UNCHANGED <<editorVars, variantVars, entryVars>>

ClockNext ==
  \/ Tick
  \/ Next /\ nActions' <= MaxClockActions

ClockSpec == Init /\ [][ClockNext]_vars

\* ---------------------------------------------------------------- entry renderer
\* The preview tab: App hands getValidForm() to FormRenderer, which builds a
\* zod schema from the questions and submits through react-hook-form.

\* the questions a stored form may hold: the fields of Question and
\* ValidationRule the renderer and the validators read (<<>>: undefined)
TextRules ==
  {[minLength |-> <<>>, maxLength |-> <<>>, pattern |-> <<>>],
   [minLength |-> <<2>>, maxLength |-> <<>>, pattern |-> <<>>],
   [minLength |-> <<>>, maxLength |-> <<1>>, pattern |-> <<>>],
   [minLength |-> <<>>, maxLength |-> <<>>, pattern |-> <<"a">>]}

NumberRules ==
  {[min |-> <<>>, max |-> <<>>], [min |-> <<4>>, max |-> <<>>],
   [min |-> <<>>, max |-> <<4>>], [min |-> <<4>>, max |-> <<3>>]}

EntryQuestions(id) ==
  {[id |-> id, type |-> "text", label |-> l, required |-> r,
    min |-> <<>>, max |-> <<>>, minLength |-> t.minLength,
    maxLength |-> t.maxLength, pattern |-> t.pattern] :
     l \in {<<>>, <<"a">>}, r \in BOOLEAN, t \in TextRules}
  \cup
  {[id |-> id, type |-> ty, label |-> l, required |-> r,
    min |-> n.min, max |-> n.max, minLength |-> <<>>,
    maxLength |-> <<>>, pattern |-> <<>>] :
     ty \in {"number"}, l \in {<<>>, <<"a">>}, r \in BOOLEAN, n \in NumberRules}
  \cup
  {[id |-> id, type |-> "null", label |-> l, required |-> FALSE,
    min |-> <<>>, max |-> <<>>, minLength |-> <<>>,
    maxLength |-> <<>>, pattern |-> <<>>] : l \in {<<>>, <<"a">>}}

EntryForms ==
  {[id |-> FormId, title |-> <<>>, questions |-> <<q1, q2>>, updatedAt |-> 0] :
     q1 \in EntryQuestions(1), q2 \in EntryQuestions(2)}

\* what the user can type into a field
Chars == {"a", "3"}
Typed == UNION {[1..n -> Chars] : n \in 0..MaxValueLen}

\* getValidForm without its filter
getValidFormAll(f) == f

\* App.getValidForm: the questions that pass isQuestionValid, in order
getValidForm(f) ==
  [f EXCEPT !.questions = SelectSeq(@, isQuestionValid)]

\* Number(val) and isNaN(Number(val)) for a non-empty string of these characters
DigitValue ==
  "0" :> 0 @@ "1" :> 1 @@ "2" :> 2 @@ "3" :> 3 @@ "4" :> 4 @@
  "5" :> 5 @@ "6" :> 6 @@ "7" :> 7 @@ "8" :> 8 @@ "9" :> 9

IsNaN(val) == \E i \in DOMAIN val : val[i] \notin DOMAIN DigitValue

RECURSIVE ToNumber(_)
ToNumber(val) ==
  IF val = <<>> THEN 0
  ELSE 10 * ToNumber(SubSeq(val, 1, Len(val) - 1)) + DigitValue[val[Len(val)]]

\* a field's validation outcome: the message of its zod issue, if any
EntryOk == [msg |-> "", n |-> 0]
ErrRequired == [msg |-> "This field is required", n |-> 0]
ErrNotNumber == [msg |-> "Must be a number", n |-> 0]
ErrAtLeast(n) == [msg |-> "Value must be at least", n |-> n]
ErrNotExceed(n) == [msg |-> "Value must not exceed", n |-> n]

\* createValidationSchema of FormRenderer, applied to one field's value
FieldError(question, val) ==
  CASE question.type = "text" ->
         IF question.required /\ Len(val) < 1 THEN ErrRequired ELSE EntryOk
    [] question.type = "number" ->
         IF val # <<>> /\ IsNaN(val) THEN ErrNotNumber
         ELSE IF val = <<>>
           THEN IF question.required THEN ErrRequired ELSE EntryOk
         ELSE IF question.min # <<>> /\ ToNumber(val) < question.min[1]
           THEN ErrAtLeast(question.min[1])
         ELSE IF question.max # <<>> /\ ToNumber(val) > question.max[1]
           THEN ErrNotExceed(question.max[1])
         ELSE EntryOk
    [] OTHER -> EntryOk

\* the value the schema hands on for a field that passed
FieldOutput(question, val) ==
  IF question.type = "number" /\ val # <<>>
    THEN [isNumber |-> TRUE, s |-> <<>>, n |-> ToNumber(val)]
    ELSE [isNumber |-> FALSE, s |-> val, n |-> 0]

\* the resolver's result for the whole form
FormErrors(f, vals) ==
  [id \in QIds(f.questions) |-> FieldError(QOf(f.questions, id), vals[id])]

\* a handleSubmit that calls onValid whatever the resolver found
NoErrorsNot(f, errs) == TRUE

\* handleSubmit calls onValid only when the resolver found no error
NoErrors(f, errs) == \A id \in QIds(f.questions) : errs[id] = EntryOk

\* the user opens the preview tab: FormRenderer mounts with default values
OpenPreview ==
  /\ entryForm = <<>>
  /\ LET f == getValidForm(appForm) IN
       /\ entryForm' = <<f>>
       /\ values' = [id \in QIds(f.questions) |-> <<>>]
  /\ UNCHANGED <<errors, submissions, appForm, formBuilderVars, variantVars, now>>

\* the user types into the field of a question; after a submit attempt the
\* field is validated again on change (reValidateMode onChange)
SetValue(id, val) ==
  /\ entryForm # <<>>
  /\ Len(submissions) < MaxSubmissions
  /\ id \in QIds(entryForm[1].questions)
  /\ QOf(entryForm[1].questions, id).type \in {"text", "number"}
  /\ values[id] # val
  /\ values' = [values EXCEPT ![id] = val]
  /\ errors' = IF errors = <<>> THEN errors
               ELSE [errors EXCEPT ![id] =
                       FieldError(QOf(entryForm[1].questions, id), val)]
  /\ UNCHANGED <<entryForm, submissions, appForm, formBuilderVars, variantVars, now>>

\* the user clicks Submit: handleSubmit(handleFormSubmit)
Submit ==
  /\ entryForm # <<>>
  /\ Len(submissions) < MaxSubmissions
  /\ LET f == entryForm[1]
         errs == FormErrors(f, values)
     IN
     /\ errors' = errs
     /\ submissions' =
          IF NoErrors(f, errs)
            THEN Append(submissions,
                   [form |-> f, raw |-> values,
                    out |-> [id \in QIds(f.questions) |->
                               FieldOutput(QOf(f.questions, id), values[id])]])
            ELSE submissions
  /\ UNCHANGED <<entryForm, values, appForm, formBuilderVars, variantVars, now>>

EntryInit ==
  /\ appForm \in EntryForms
  /\ InitEditor /\ VariantIdle /\ EntryIdle /\ InitClock

EntryNext ==
  \/ OpenPreview
  \/ \E id \in 1..2, val \in Typed : SetValue(id, val)
  \/ Submit

EntrySpec == EntryInit /\ [][EntryNext]_vars

\* ---------------------------------------------------------------- FormBuilder with a title input
\* The FormBuilder that follows App in App.tsx: the title is edited in
\* place and saved, debounced by one second, through formService.saveForm.
TitleInputs == {<<>>, <<"a">>, <<"b">>}

\* formService.saveForm: the form stored under a new nanoid()
NewStoredForm(forms, f) ==
  [f EXCEPT !.id = Len(forms) + 1, !.updatedAt = DateNow]

\* handleTitleChange: setForm, then debouncedSave clears and sets the timer
HandleTitleChange(title) ==
  /\ nActions < MaxActions
  /\ title # vForm.title                 \* onChange reports changes only
  /\ LET updatedForm == [vForm EXCEPT !.title = title, !.updatedAt = DateNow] IN
       /\ vForm' = updatedForm
       /\ vTimer' = <<[form |-> updatedForm, tag |-> nActions + 1]>>
  /\ nActions' = nActions + 1
  /\ UNCHANGED <<vSaving, vStore, vCalls, appForm, entryVars, now>>
  /\ UNCHANGED <<form, fbSaving, store, nextId, local, updTimer, rec, inflight,
                 submits, updates, sent, superseded, tornDown, rejected, deleted>>

\* the debounce timer fires: saveForm(updatedForm) up to its await
TitleTimerFire ==
  /\ vTimer # <<>>
  /\ vSaving' = TRUE
  /\ vCalls' = vCalls \cup {vTimer[1]}
  /\ vTimer' = <<>>
  /\ UNCHANGED <<vForm, vStore, appForm, entryVars, formBuilderVars, now>>

\* formService.saveForm resolves and saveForm continues: setForm(savedForm),
\* onSave(savedForm)
SaveFormResolve(c) ==
  /\ c \in vCalls
  /\ LET savedForm == NewStoredForm(vStore, c.form) IN
       /\ vStore' = Append(vStore, savedForm)
       /\ vForm' = savedForm
       /\ appForm' = savedForm
  /\ vSaving' = FALSE
  /\ vCalls' = vCalls \ {c}
  /\ UNCHANGED <<vTimer, entryVars, formBuilderVars, now>>

\* formService.saveForm rejects: a toast, isSaving reset
SaveFormReject(c) ==
  /\ c \in vCalls
  /\ vSaving' = FALSE
  /\ vCalls' = vCalls \ {c}
  /\ UNCHANGED <<vForm, vStore, vTimer, appForm, entryVars, formBuilderVars, now>>

\* the stored form loaded by App and given as initialForm
TitleInit ==
  /\ vForm = [id |-> FormId, title |-> <<>>, questions |-> <<>>, updatedAt |-> 0]
  /\ vSaving = FALSE
  /\ vStore = <<[id |-> FormId, title |-> <<>>, questions |-> <<>>, updatedAt |-> 0]>>
  /\ vTimer = <<>>
  /\ vCalls = {}
  /\ appForm = [id |-> FormId, title |-> <<>>, questions |-> <<>>, updatedAt |-> 0]
  /\ InitEditor /\ EntryIdle /\ InitClock

TitleNext ==
  \/ \E title \in TitleInputs : HandleTitleChange(title)
  \/ TitleTimerFire
  \/ \E c \in vCalls : SaveFormResolve(c)
  \/ \E c \in vCalls : SaveFormReject(c)

TitleSpec == TitleInit /\ [][TitleNext]_vars

\* ---------------------------------------------------------------- vocabulary of the claims
IsBlank(label) == Trim(label) = <<>>

\* the gateway calls in flight that the reconciler of question id issued
SavesInFlight(id) == {c \in InFlight : c.kind = "saveQuestion" /\ c.by = id}

\* the handles of the save timers scheduled and neither fired nor cleared
PendingHandles == UNION {{t.handle : t \in rec[id].timers} : id \in Ids}

\* the question of the latest debouncedSave call for question id, if any
LastSubmitted(id) ==
  LET calls == {i \in DOMAIN submits : submits[i].id = id} IN
    IF calls = {} THEN <<>>
    ELSE <<submits[CHOOSE i \in calls : \A j \in calls : j <= i].q>>

\* no timer pending and no gateway call in flight
Quiescent ==
  /\ inflight = EmptyBag
  /\ \A id \in Ids : rec[id].timers = {} /\ updTimer[id] = <<>>

\* ---------------------------------------------------------------- claims

\* C1: validateQuestion returns invalid with the title-required message for
\* every question whose label is empty or whitespace-only, and a reconciler
\* never calls formService.saveQuestion with such a question.
ValidatorRejectsBlank ==
  \A q \in Questions :
    IsBlank(q.label) => validateQuestion(q) = [isValid |-> FALSE, error |-> ErrTitle]

C1_BlankNeverSaved ==
  /\ ValidatorRejectsBlank
  /\ \A c \in InFlight : c.kind = "saveQuestion" => ~IsBlank(c.q[1].label)
  /\ \A i \in DOMAIN sent : ~IsBlank(sent[i].q.label)

\* C1 witness: a blank-titled question was submitted to debouncedSave, its
\* timer fired, and the reconciler shows the title error with nothing sent.
C1_Witness ==
  \E id \in Ids :
    /\ LastSubmitted(id) # <<>>
    /\ IsBlank(LastSubmitted(id)[1].label)
    /\ rec[id].timers = {}
    /\ rec[id].error = ErrTitle
    /\ sent = <<>>

\* C2: when debouncedSave(E1) is followed by debouncedSave(E2) on the same
\* reconciler before E1's timer fires, E1 is never sent; a submission is sent
\* at most once, the call carries the submitted question, and the firing of
\* the timer of a valid submission makes exactly that one call.
C2_Sends ==
  \A i \in DOMAIN sent :
    /\ sent[i].seq \notin superseded
    /\ sent[i].seq \in DOMAIN submits
    /\ sent[i].q = submits[sent[i].seq].q
    /\ \A j \in DOMAIN sent : sent[j].seq = sent[i].seq => j = i

C2_Fire ==
  \A id \in Ids : \A t \in rec[id].timers :
    ( /\ t \notin rec'[id].timers
      /\ t.handle \notin superseded'
      /\ t.handle \notin tornDown'
      /\ validateQuestion(t.q).isValid )
    => sent' = Append(sent, [seq |-> t.handle, q |-> t.q])

C3_AtMostOneInFlight ==
  \A id \in Ids : Cardinality(SavesInFlight(id)) <= 1

\* A step is a debouncedSave call exactly when the history of calls grows.
IsSubmitStep == Len(submits') = Len(submits) + 1
Submitted == submits'[Len(submits')]

\* C4: when the question passed to debouncedSave equals the last acknowledged
\* question, no save timer remains scheduled after the call and no gateway
\* call results from the submission.
C4_NoOp ==
  (IsSubmitStep /\ IsLastSaved(rec[Submitted.id], Submitted.q))
  => /\ rec'[Submitted.id].timers = {}
     /\ inflight' = inflight

C4_NoOpSuppression == [][C4_NoOp]_vars

\* C5: the save timers pending when a question's reconciler is torn down are
\* cancelled: an unmounted reconciler holds no timer, and no
\* formService.saveQuestion call is ever made for such a timer.
C5_TeardownCancels ==
  /\ \A id \in Ids \ QIds(form.questions) : rec[id].timers = {}
  /\ \A i \in DOMAIN sent : sent[i].seq \notin tornDown
  /\ tornDown \cap PendingHandles = {}

\* C5 witness: the initial question was deleted while its save timer was
\* pending, every gateway call has since completed, and nothing was sent.
C5_Witness ==
  /\ \E h \in tornDown : submits[h].id = 1 /\ validateQuestion(submits[h].q).isValid
  /\ 1 \notin QIds(form.questions)
  /\ Quiescent
  /\ sent = <<>>

\* C6: every question held in the store passes definition validation.
C6_StoreValid ==
  \A i \in DOMAIN store : \A j \in DOMAIN store[i].questions :
    isQuestionValid(store[i].questions[j])

\* C7: every debouncedSave(q) call makes exactly one onUpdate(q) call, within
\* the call, valid or not; a question is sent to the gateway only after its
\* onUpdate call.
C7_OptimisticPropagation ==
  /\ updates = [i \in DOMAIN submits |-> submits[i].q]
  /\ \A i \in DOMAIN sent :
       sent[i].seq \in DOMAIN updates /\ updates[sent[i].seq] = sent[i].q

\* C7 witness: an invalid question was submitted and propagated, and is the
\* in-memory question.
C7_Witness ==
  \E i \in DOMAIN submits :
    /\ ~validateQuestion(submits[i].q).isValid
    /\ i \in DOMAIN updates
    /\ updates[i] = submits[i].q
    /\ submits[i].id \in QIds(form.questions)
    /\ QOf(form.questions, submits[i].id) = submits[i].q

\* C8: when a reconciler's saveQuestion call rejects, error becomes the
\* failure message and isSaving false, the last acknowledged value stays, no
\* onUpdate call is made and the in-memory form is left as it is.
C8_Reject ==
  \A c \in InFlight :
    ( /\ c.kind = "saveQuestion"
      /\ c.by # NoHandle
      /\ inflight' = Settle(inflight, c)
      /\ nextId' = nextId )
    => /\ rec'[c.by].error = ErrSaveQuestion
       /\ rec'[c.by].isSaving = FALSE
       /\ rec'[c.by].lastSaved = rec[c.by].lastSaved
       /\ rec'[c.by].timers = rec[c.by].timers
       /\ updates' = updates
       /\ form' = form

C8_SaveFailure == [][C8_Reject]_vars

\* C8 witness: a save failed; the reconciler shows the failure, is not
\* saving, acknowledged nothing, and the edit is still the in-memory question.
C8_Witness ==
  \E id \in QIds(form.questions) :
    /\ rec[id].error = ErrSaveQuestion
    /\ rec[id].isSaving = FALSE
    /\ rec[id].lastSaved = <<>>
    /\ LastSubmitted(id) # <<>>
    /\ QOf(form.questions, id) = LastSubmitted(id)[1]
    /\ Len(sent) = 1

\* C9: the in-memory value of a question equals the latest edit submitted
\* for it, whatever gateway responses have landed.
C9_LastLocalWriteWins ==
  \A id \in QIds(form.questions) :
    LastSubmitted(id) # <<>> => QOf(form.questions, id) = LastSubmitted(id)[1]

\* C10: once edits to two different questions have been submitted and every
\* timer has fired and every gateway call has succeeded, the in-memory form
\* and the stored form both hold the latest edit of each of the two.
EditedIds == {submits[i].id : i \in DOMAIN submits}

HoldsLatest(qs, id) ==
  id \in QIds(qs) /\ QOf(qs, id) = LastSubmitted(id)[1]

C10_NoLostUpdate ==
  ( /\ Quiescent
    /\ ~rejected
    /\ Cardinality(EditedIds) = 2
    /\ \A id \in EditedIds : validateQuestion(LastSubmitted(id)[1]).isValid )
  => \A id \in EditedIds :
       /\ HoldsLatest(form.questions, id)
       /\ HoldsLatest(store[FormIndex(store, FormId)].questions, id)

\* a number question whose minimum and maximum are both set, minimum larger
MinOverMax(q) ==
  q.type = "number" /\ q.min # <<>> /\ q.max # <<>> /\ q.min[1] > q.max[1]

\* the questions a gateway call carries
Carried(c) ==
  Range(c.q) \cup UNION {Range(f.questions) : f \in Range(c.form)}

\* C12: when handleAddQuestion's save resolves, exactly one default question
\* (type text) is appended at the end of the in-memory questions, the
\* existing ones unchanged and in order, the stored form gets the same
\* question appended, and its id is the gateway's, not the placeholder.
C12_AddStep ==
  (nextId' = nextId + 1 /\ form' # form)
  => LET added == [NewQuestion EXCEPT !.id = nextId] IN
       /\ form'.questions = Append(form.questions, added)
       /\ store' = PushQuestion(store, FormIndex(store, FormId), added)
       /\ added.id # PlaceholderId

C12_AddQuestion == [][C12_AddStep]_vars

\* C16: the validator of the reconciler returns invalid for every question
\* whose type is unset, and no such question is sent to
\* formService.saveQuestion.
C16_TypeRequired ==
  /\ \A q \in Questions : q.type = "null" => ~validateQuestion(q).isValid
  /\ \A i \in DOMAIN sent : sent[i].q.type # "null"

\* C17: a number question with minimum above maximum is invalid whatever its
\* other fields, and no gateway call carries one.
C17_MinOverMax ==
  /\ \A q \in Questions : MinOverMax(q) => ~validateQuestion(q).isValid
  /\ \A c \in InFlight : \A q \in Carried(c) : ~MinOverMax(q)

\* C19: every reconciler has at most one save timer scheduled and not fired.
C19_OneTimer ==
  \A id \in Ids : Cardinality(rec[id].timers) <= 1

\* C19 witness: a debouncedSave call found a timer pending, and its
\* reconciler holds exactly the one timer of the latest call.
C19_Witness ==
  \E id \in Ids :
    /\ \E h \in superseded : submits[h].id = id
    /\ \E t \in rec[id].timers :
         rec[id].timers = {t} /\ <<t.q>> = LastSubmitted(id) /\ t.handle > 1

\* C20: a debouncedSave call with a question that fails validation records
\* the reason in the error state within the call and schedules no timer.
C20_InvalidStep ==
  (IsSubmitStep /\ ~validateQuestion(Submitted.q).isValid)
  => /\ rec'[Submitted.id].timers = {}
     /\ rec'[Submitted.id].error = validateQuestion(Submitted.q).error

C20_ValidationGates == [][C20_InvalidStep]_vars

\* C11: once every timer has fired and every gateway call has succeeded, a
\* deleted question is absent from the in-memory form and from the stored
\* form, in whatever order the responses landed.
C11_DeletePersists ==
  (Quiescent /\ ~rejected)
  => \A id \in deleted :
       /\ id \notin QIds(form.questions)
       /\ id \notin QIds(store[FormIndex(store, FormId)].questions)

\* definition validation as specified: a non-empty label, a type, and for a
\* number question no minimum above the maximum
DefinitionValid(q) ==
  /\ \E i \in DOMAIN q.label : q.label[i] # " "
  /\ q.type # "null"
  /\ ~MinOverMax(q)

RECURSIVE IsSubsequence(_, _)
IsSubsequence(a, b) ==
  IF a = <<>> THEN TRUE
  ELSE IF b = <<>> THEN FALSE
  ELSE IF Head(a) = Head(b) THEN IsSubsequence(Tail(a), Tail(b))
  ELSE IsSubsequence(a, Tail(b))

\* C13: the form the entry renderer is given holds exactly the questions of
\* App's form that pass definition validation, in their original order.
C13_ValidSubsequence ==
  entryForm # <<>> =>
    LET shown == entryForm[1].questions IN
      /\ \A i \in DOMAIN shown : DefinitionValid(shown[i])
      /\ IsSubsequence(shown, appForm.questions)
      /\ \A i \in DOMAIN appForm.questions :
           DefinitionValid(appForm.questions[i])
             => appForm.questions[i] \in Range(shown)

\* C13 witness: the preview is open on a form whose first question is a
\* number question with minimum above maximum and whose second is valid;
\* only the second is shown.
C13_Witness ==
  /\ entryForm # <<>>
  /\ MinOverMax(appForm.questions[1])
  /\ appForm.questions[1].label = <<"a">>
  /\ DefinitionValid(appForm.questions[2])
  /\ entryForm[1].questions = <<appForm.questions[2]>>

\* the value rules of the renderer, spelled out: a required field is not
\* empty; a number field holds a number within its bounds
PassesValue(q, val) ==
  /\ (q.type \in {"text", "number"} /\ q.required) => val # <<>>
  /\ (q.type = "number" /\ val # <<>>) =>
       /\ \A i \in DOMAIN val : val[i] \in DOMAIN DigitValue
       /\ q.min # <<>> => ToNumber(val) >= q.min[1]
       /\ q.max # <<>> => ToNumber(val) <= q.max[1]

\* C14: onSubmit is called only with values that all pass, and with an entry
\* for every question id; a click on Submit with a failing field calls
\* onSubmit not at all and exposes that field's message.
C14_Submitted ==
  \A i \in DOMAIN submissions :
    LET p == submissions[i] IN
      /\ DOMAIN p.out = QIds(p.form.questions)
      /\ \A q \in Range(p.form.questions) : PassesValue(q, p.raw[q.id])

C14_Click ==
  (entryForm # <<>> /\ entryForm' = entryForm /\ values' = values)
  => LET qs == Range(entryForm[1].questions)
         failing == {q \in qs : ~PassesValue(q, values[q.id])}
     IN
     IF failing # {}
       THEN /\ submissions' = submissions
            /\ \A q \in failing : errors'[q.id] # EntryOk
            /\ \A q \in failing :
                 (q.type = "text" /\ values[q.id] = <<>>)
                   => errors'[q.id] = ErrRequired
       ELSE Len(submissions') = Len(submissions) + 1

C14_AtomicSubmission == [](C14_Submitted) /\ [][C14_Click]_vars

\* C14 witness: Submit was clicked with a required text field empty and the
\* other field filled in validly: nothing was submitted and the empty field
\* shows the required message.
C14_Witness ==
  /\ entryForm # <<>>
  /\ submissions = <<>>
  /\ errors # <<>>
  /\ Len(entryForm[1].questions) = 2
  /\ LET q1 == entryForm[1].questions[1]
         q2 == entryForm[1].questions[2]
     IN
     /\ q1.type = "text" /\ q1.required /\ values[1] = <<>>
     /\ errors[1] = ErrRequired
     /\ q2.type = "number" /\ q2.min # <<>> /\ values[2] # <<>>
     /\ errors[2] = EntryOk

\* C18: a submitted text value is never shorter than the question's
\* minLength, longer than its maxLength, or without a match of its pattern.
C18_TextRules ==
  \A i \in DOMAIN submissions :
    LET p == submissions[i] IN
      \A q \in Range(p.form.questions) :
        LET val == p.raw[q.id] IN
          (q.type = "text" /\ val # <<>>) =>
            /\ q.minLength # <<>> => Len(val) >= q.minLength[1]
            /\ q.maxLength # <<>> => Len(val) <= q.maxLength[1]
            /\ q.pattern # <<>> => \E k \in DOMAIN val : val[k] = q.pattern[1]

\* C15: the id of the form in memory never changes and the whole-form save
\* of a title edit rewrites the stored form in place: the store keeps its
\* one form.
C15_FormIdStable ==
  /\ vForm.id = FormId
  /\ Len(vStore) = 1

\* the reconciler of a mounted question is at rest: no timer of its
\* QuestionBuilder or of its own pending, none of its calls in flight
AtRest(id) ==
  /\ id \in QIds(form.questions)
  /\ rec[id].timers = {}
  /\ updTimer[id] = <<>>
  /\ SavesInFlight(id) = {}

\* C22: a reconciler at rest with no error, which has acknowledged a save
\* and whose latest submitted question is valid, has acknowledged exactly
\* that question.
C22_QuiescentConsistency ==
  \A id \in Ids :
    ( /\ AtRest(id)
      /\ rec[id].error = NoError
      /\ rec[id].lastSaved # <<>>
      /\ LastSubmitted(id) # <<>>
      /\ validateQuestion(LastSubmitted(id)[1]).isValid )
    => rec[id].lastSaved = LastSubmitted(id)

\* C23: after edits only (no question added or deleted), once every timer
\* has fired and every gateway call has succeeded, the stored form holds as
\* many questions as the in-memory form.
C23_NoDuplicates ==
  ( /\ Quiescent
    /\ ~rejected
    /\ deleted = {}
    /\ nextId - 2 = Len(sent) )       \* every stored id went to a reconciler save
  => Len(store[FormIndex(store, FormId)].questions) = Len(form.questions)

\* C24: with nothing but add clicks, all answered successfully, the
\* in-memory form holds the initial question and one question per add, also
\* when two adds were in flight together.
C24_ConcurrentAdds ==
  ( /\ Quiescent
    /\ ~rejected
    /\ submits = <<>>
    /\ deleted = {}
    /\ nActions = 2
    /\ nextId = 4 )
  => Len(form.questions) = 3

\* C25: a reconciler's isSaving is true exactly while a saveQuestion call it
\* issued is in flight, and FormBuilder's isSaving exactly while an
\* updateForm call is.
C25_SavingExact ==
  /\ \A id \in QIds(form.questions) :
       rec[id].isSaving <=> (SavesInFlight(id) # {})
  /\ fbSaving <=> (\E c \in InFlight : c.kind = "updateForm")

\* C26: while no gateway call has ever failed, a reconciler at rest shows an
\* error only if the latest question submitted to it is invalid.
C26_NoStaleError ==
  \A id \in Ids :
    ( /\ AtRest(id)
      /\ ~rejected
      /\ rec[id].error # NoError
      /\ LastSubmitted(id) # <<>> )
    => ~validateQuestion(LastSubmitted(id)[1]).isValid

\* C21: no step of the editor, of the gateway or of the clock lowers the
\* updatedAt of the in-memory form or of the stored form.
C21_Step ==
  /\ form'.updatedAt >= form.updatedAt
  /\ store'[FormIndex(store', FormId)].updatedAt
       >= store[FormIndex(store, FormId)].updatedAt

C21_UpdatedAtMonotone == [][C21_Step]_vars

\* two updateForm calls were answered out of call order while the clock
\* advanced: the question deleted after an edit is back in the form
C21_Witness ==
  /\ Quiescent
  /\ ~rejected
  /\ submits # <<>>
  /\ deleted = {1}
  /\ 1 \in QIds(form.questions)
  /\ now = MaxClock
  /\ form.updatedAt = MaxClock
  /\ store[FormIndex(store, FormId)].updatedAt = MaxClock

====
